---------------------------- MODULE Spec2Model ----------------------------
(***************************************************************************)
(* Racing UI backend (src/main.py, src/schemas.py): the request handlers   *)
(* over the document store, with the leaderboard ranking of                *)
(* GET /leaderboard/{race_id} computed as Python computes it.              *)
(*                                                                         *)
(* Representation                                                          *)
(*  - a document is a function from its keys to values; a key that the     *)
(*    document does not hold is outside its DOMAIN (dict.get default);     *)
(*  - a Python value is a triple <<type, hi, lo>>: None is                 *)
(*    <<"NoneType", 0, 0>>, a number is <<"int" | "float", hi, lo>> and    *)
(*    stands for hi * 10^6 + lo, 0 <= lo < 10^6 (1e12 does not fit a       *)
(*    32-bit integer; the pair keeps every value exact);                   *)
(*  - a string that is parsed (a race id) is a sequence of characters;     *)
(*  - an ObjectId is the natural number its 12 bytes encode; the store     *)
(*    hands them out in increasing order.                                  *)
(***************************************************************************)
EXTENDS Integers, Sequences, FiniteSets, TLC

VARIABLES
    db,       \* TRUE: `db` of module database is a store handle; FALSE: it is None
    vehicle,  \* collection "vehicle": the documents in insertion order
    map,      \* collection "map"
    race,     \* collection "race"
    entry,    \* collection "entry"
    nextOid,  \* the next ObjectId the store assigns
    seedPc,   \* per worker: where its POST /seed request stands
    seedCounts, \* per worker: the local `counts` of its POST /seed request
    resp      \* the response to the latest request (NoResp: none since the last write by a collaborator)

vars == <<db, vehicle, map, race, entry, nextOid, seedPc, seedCounts, resp>>

-----------------------------------------------------------------------------
(* Bounds of the model *)

MaxEntries == 4
MaxRaces == 3
MaxListedRaces == 52
NumWorkers == 2

-----------------------------------------------------------------------------
(* Python values *)

Million == 1000000

NoneV == <<"NoneType", 0, 0>>
IntV(hi, lo) == <<"int", hi, lo>>

\* the default of e.get(..., 1e12): the float 10^12 = 10^6 * 10^6
Sentinel == <<"float", Million, 0>>

IsNone(v) == v[1] = "NoneType"

\* a == b of Python on None and numbers (an int and a float of the same value are equal)
PyEq(a, b) ==
    IF IsNone(a) \/ IsNone(b) THEN IsNone(a) /\ IsNone(b)
    ELSE a[2] = b[2] /\ a[3] = b[3]

\* a < b of Python: "T", "F", or "E" for the TypeError of an unordered pair
PyLt(a, b) ==
    IF IsNone(a) \/ IsNone(b) THEN "E"
    ELSE IF a[2] < b[2] \/ (a[2] = b[2] /\ a[3] < b[3]) THEN "T" ELSE "F"

\* t1 < t2 of two tuples of the same length: the first index whose items
\* differ by == decides by <; equal tuples are not less
TupleLt(t1, t2) ==
    LET diff == {i \in 1..Len(t1) : ~PyEq(t1[i], t2[i])}
    IN IF diff = {} THEN "F"
       ELSE LET i == CHOOSE k \in diff : \A m \in diff : k <= m
            IN PyLt(t1[i], t2[i])

\* dict.get(key, default)
Get(doc, key, default) == IF key \in DOMAIN doc THEN doc[key] ELSE default

-----------------------------------------------------------------------------
(* ObjectId *)

HexDigits == <<"0", "1", "2", "3", "4", "5", "6", "7",
               "8", "9", "a", "b", "c", "d", "e", "f">>

HexChars == {HexDigits[i] : i \in 1..16} \cup {"A", "B", "C", "D", "E", "F"}

OidLen == 24

RECURSIVE Pow16(_)
Pow16(k) == IF k = 0 THEN 1 ELSE 16 * Pow16(k - 1)

\* str(ObjectId): 24 lower-case hex digits (the model's ids stay below 16^7)
OidStr(n) ==
    [i \in 1..OidLen |->
        IF OidLen - i >= 7 THEN "0"
        ELSE HexDigits[((n \div Pow16(OidLen - i)) % 16) + 1]]

\* ObjectId(s) of a str succeeds exactly on 24 hex digits
ObjectIdValid(s) == Len(s) = OidLen /\ \A i \in 1..Len(s) : s[i] \in HexChars


-----------------------------------------------------------------------------
(* list.sort(key=...) of CPython (listobject.c, up to 3.11) on fewer than 64 *)
(* items: one run is counted at the front (a strictly descending one is     *)
(* reversed) and the remaining items are inserted by binary search.  A      *)
(* comparison that raises ends the sort with that exception.                *)

\* the key of get_leaderboard's sort
SortKey(e) == <<Get(e, "total_time_ms", Sentinel), Get(e, "best_lap_ms", Sentinel)>>

\* ISLT(x, y) on two items, by their keys
ItemLt(x, y) == TupleLt(SortKey(x), SortKey(y))

Reverse(s) == [i \in 1..Len(s) |-> s[Len(s) + 1 - i]]

RECURSIVE RunEnd(_, _, _)
\* s[1..n] is a run (strictly descending if desc, else non-descending); the
\* length of the longest such run at the front of s, 0 if a comparison raises
RunEnd(s, n, desc) ==
    IF n = Len(s) THEN n
    ELSE LET c == ItemLt(s[n + 1], s[n])
         IN IF c = "E" THEN 0
            ELSE IF (c = "T") = desc THEN RunEnd(s, n + 1, desc)
            ELSE n

\* count_run: [n: the length of the run at the front (0: raised), desc]
CountRun(s) ==
    LET c == ItemLt(s[2], s[1])
    IN IF c = "E" THEN [n |-> 0, desc |-> FALSE]
       ELSE [n |-> RunEnd(s, 2, c = "T"), desc |-> c = "T"]

RECURSIVE BinSearchLeft(_, _, _, _)
\* a search that places the pivot left of the items equal to it
BinSearchLeft(s, pivot, l, r) ==
    IF l >= r THEN l
    ELSE LET p == l + ((r - l) \div 2)
             c == ItemLt(s[p], pivot)
         IN IF c = "E" THEN 0
            ELSE IF c = "T" THEN BinSearchLeft(s, pivot, p + 1, r)
            ELSE BinSearchLeft(s, pivot, l, p)

RECURSIVE BinSearch(_, _, _, _)
\* binarysort's search of the place of pivot in the sorted s[l..r-1]: the
\* rightmost place that keeps equal items in order; 0 if a comparison raises
BinSearch(s, pivot, l, r) ==
    IF l >= r THEN l
    ELSE LET p == l + ((r - l) \div 2)
             c == ItemLt(pivot, s[p])
         IN IF c = "E" THEN 0
            ELSE IF c = "T" THEN BinSearch(s, pivot, l, p)
            ELSE BinSearch(s, pivot, p + 1, r)

RECURSIVE BinarySort(_, _)
\* binarysort: s[1..start-1] is sorted; inserts s[start], s[start+1], ...
BinarySort(s, start) ==
    IF start > Len(s) THEN [err |-> FALSE, seq |-> s]
    ELSE LET l == BinSearch(s, s[start], 1, start)
         IN IF l = 0 THEN [err |-> TRUE, seq |-> <<>>]
            ELSE BinarySort(SubSeq(s, 1, l - 1) \o <<s[start]>>
                              \o SubSeq(s, l, start - 1)
                              \o SubSeq(s, start + 1, Len(s)),
                            start + 1)

\* entries.sort(key=...): [err: a comparison raised TypeError, seq: the sorted list]
ListSort(s) ==
    IF Len(s) < 2 THEN [err |-> FALSE, seq |-> s]
    ELSE LET run == CountRun(s)
         IN IF run.n = 0 THEN [err |-> TRUE, seq |-> <<>>]
            ELSE BinarySort(
                     IF run.desc
                     THEN Reverse(SubSeq(s, 1, run.n)) \o SubSeq(s, run.n + 1, Len(s))
                     ELSE s,
                     run.n + 1)

-----------------------------------------------------------------------------
(* Documents and the store *)

\* doc with key k set to v (doc[k] = v)
SetKey(doc, k, v) ==
    [x \in DOMAIN doc \cup {k} |-> IF x = k THEN v ELSE doc[x]]

\* doc without key k (doc.pop(k))
DelKey(doc, k) == [x \in DOMAIN doc \ {k} |-> doc[x]]

\* to_str_id
to_str_id(doc) ==
    IF "_id" \in DOMAIN doc
    THEN SetKey(DelKey(doc, "_id"), "id", OidStr(doc["_id"]))
    ELSE doc

\* collection.find({"race_id": race_id}): the matching documents, in store order
FindByRace(coll, race_id) ==
    SelectSeq(coll, LAMBDA d : "race_id" \in DOMAIN d /\ d["race_id"] = race_id)

\* no response: no request was made since the store was last written by a collaborator
NoResp == [op |-> "none", arg |-> <<>>, status |-> 0, body |-> <<>>,
           calls |-> <<>>, repeat |-> FALSE]

-----------------------------------------------------------------------------
(* GET /leaderboard/{race_id} *)

\* a position counter that is carried over from the previous response
FirstPositionCarried ==
    IF resp.op = "leaderboard" /\ resp.status = 200 THEN Len(resp.body) + 1 ELSE 1

\* enumerate(entries, start=1)
FirstPosition == 1

\* positions counted from 0
AssignPositionsZeroBased(sorted) ==
    [i \in 1..Len(sorted) |-> SetKey(sorted[i], "position", i - 1)]

\* for idx, e in enumerate(entries, start=1): e["position"] = idx
AssignPositions(sorted) ==
    [i \in 1..Len(sorted) |-> SetKey(sorted[i], "position", FirstPosition + i - 1)]

\* a store whose find hands out the stored documents themselves: the
\* handler's e["position"] = idx and doc.pop("_id") reach the collection
EntryAfterReadAliased(coll, ranked) ==
    [i \in 1..Len(coll) |->
        IF \E j \in 1..Len(ranked) :
               "_id" \in DOMAIN coll[i] /\ ranked[j]["_id"] = coll[i]["_id"]
        THEN to_str_id(CHOOSE d \in {ranked[j] : j \in 1..Len(ranked)} :
                           d["_id"] = coll[i]["_id"])
        ELSE coll[i]]

\* the collection after the handler changed the documents it had found:
\* find returns copies, so the stored documents are what they were
EntryAfterRead(coll, ranked) == coll

\* a handler that queries the entries before it validates the identifier
LeaderboardFindFirst(race_id) ==
    IF ~db THEN [status |-> 500, body |-> <<>>, calls |-> <<>>]
    ELSE LET calls == <<[coll |-> "entry", op |-> "find", arg |-> race_id]>>
             sorted == ListSort(FindByRace(entry, race_id))
         IN IF ~ObjectIdValid(race_id)
            THEN [status |-> 400, body |-> <<>>, calls |-> calls]
            ELSE IF sorted.err
            THEN [status |-> 500, body |-> <<>>, calls |-> calls]
            ELSE [status |-> 200, calls |-> calls,
                  body |-> [i \in 1..Len(sorted.seq) |->
                               to_str_id(AssignPositions(sorted.seq)[i])]]

\* the status and body of get_leaderboard's response and the store calls it makes
Leaderboard(race_id) ==
    IF ~db THEN [status |-> 500, body |-> <<>>, calls |-> <<>>]
    ELSE IF ~ObjectIdValid(race_id) THEN [status |-> 400, body |-> <<>>, calls |-> <<>>]
    ELSE LET found == FindByRace(entry, race_id)
             calls == <<[coll |-> "entry", op |-> "find", arg |-> race_id]>>
             sorted == ListSort(found)
         IN IF sorted.err
            THEN [status |-> 500, body |-> <<>>, calls |-> calls]
            ELSE [status |-> 200, calls |-> calls,
                  body |-> [i \in 1..Len(sorted.seq) |->
                               to_str_id(AssignPositions(sorted.seq)[i])]]


\* the found documents as the handler leaves them in memory (sorted, with positions)
Ranked(race_id) ==
    IF db /\ ObjectIdValid(race_id)
    THEN LET sorted == ListSort(FindByRace(entry, race_id))
         IN IF sorted.err THEN <<>> ELSE AssignPositions(sorted.seq)
    ELSE <<>>

-----------------------------------------------------------------------------
(* Inputs *)

RidA == [i \in 1..OidLen |-> "a"]
RidB == [i \in 1..OidLen |-> IF i = OidLen THEN "b" ELSE "a"]
RidNonHex == [i \in 1..OidLen |-> IF i = OidLen THEN "g" ELSE "a"]
RidShort == <<"a", "b", "c">>

\* the race_id path parameters of the requests
RaceIdInputs == {RidA, RidB, RidNonHex, RidShort}

T120000 == IntV(0, 120000)
TBig == IntV(2 * Million, 0)
B29000 == IntV(0, 29000)
B29500 == IntV(0, 29500)
B30000 == IntV(0, 30000)

\* a key that a document does not hold
Absent == <<"absent", 0, 0>>

\* an entry document before the store gives it an _id: race_id is a plain
\* string, total_time_ms and best_lap_ms are None, an int >= 0, or not there
EntryDoc(race_id, total, best) ==
    [k \in {"race_id"} \cup (IF total = Absent THEN {} ELSE {"total_time_ms"})
                       \cup (IF best = Absent THEN {} ELSE {"best_lap_ms"}) |->
        IF k = "race_id" THEN race_id
        ELSE IF k = "total_time_ms" THEN total ELSE best]

\* the entries another collaborator writes
EntryInputs ==
    { EntryDoc(RidA, T120000, B30000), EntryDoc(RidA, NoneV, B29000),
      EntryDoc(RidA, T120000, B29500), EntryDoc(RidA, NoneV, NoneV),
      EntryDoc(RidA, Absent, Absent),  EntryDoc(RidA, Absent, B29000),
      EntryDoc(RidA, TBig, B29000),    EntryDoc(RidA, T120000, NoneV),
      EntryDoc(RidShort, T120000, B30000) }

-----------------------------------------------------------------------------
(* Initial state: the process has started; the store, if one is configured, is empty *)

Workers == 1..NumWorkers

Init ==
    /\ db \in BOOLEAN
    /\ vehicle = <<>>
    /\ map = <<>>
    /\ race = <<>>
    /\ entry = <<>>
    /\ nextOid = 1
    /\ seedPc = [w \in Workers |-> "idle"]
    /\ seedCounts = [w \in Workers |-> [vehicle |-> 0, map |-> 0]]
    /\ resp = NoResp

-----------------------------------------------------------------------------
(* Actions of the leaderboard *)

\* a collaborator inserts an entry into collection "entry" (insert_one)
InsertEntry(d) ==
    /\ db
    /\ Len(entry) < MaxEntries
    /\ entry' = Append(entry, SetKey(d, "_id", nextOid))
    /\ nextOid' = nextOid + 1
    /\ resp' = NoResp
    /\ UNCHANGED <<db, vehicle, map, race, seedPc, seedCounts>>

\* GET /leaderboard/{race_id}
GetLeaderboard(race_id) ==
    /\ LET r == Leaderboard(race_id)
       IN resp' = [op |-> "leaderboard", arg |-> race_id, status |-> r.status,
                   body |-> r.body, calls |-> r.calls,
                   repeat |-> resp.op = "leaderboard" /\ resp.arg = race_id]
    /\ entry' = EntryAfterRead(entry, Ranked(race_id))
    /\ UNCHANGED <<db, vehicle, map, race, nextOid, seedPc, seedCounts>>

NextLeaderboard ==
    \/ \E d \in EntryInputs : InsertEntry(d)
    \/ \E race_id \in RaceIdInputs : GetLeaderboard(race_id)

Spec == Init /\ [][NextLeaderboard]_vars


-----------------------------------------------------------------------------
(* The claims about the leaderboard *)

LeaderboardOk == resp.op = "leaderboard" /\ resp.status = 200

\* a value that is not recorded: the key is not there, or it holds None
Missing(e, k) == k \notin DOMAIN e \/ IsNone(e[k])

\* e1[k] < e2[k], a missing value counting as +infinity
LtInf(e1, e2, k) ==
    /\ ~Missing(e1, k)
    /\ \/ Missing(e2, k)
       \/ e1[k][2] < e2[k][2]
       \/ e1[k][2] = e2[k][2] /\ e1[k][3] < e2[k][3]

\* e1[k] = e2[k], missing values counting as equal to each other
EqInf(e1, e2, k) ==
    \/ Missing(e1, k) /\ Missing(e2, k)
    \/ ~Missing(e1, k) /\ ~Missing(e2, k) /\ e1[k][2] = e2[k][2] /\ e1[k][3] = e2[k][3]

Tied(e1, e2) == EqInf(e1, e2, "total_time_ms") /\ EqInf(e1, e2, "best_lap_ms")

\* (total, best) of e1 <= (total, best) of e2, lexicographically
PairLe(e1, e2) ==
    \/ LtInf(e1, e2, "total_time_ms")
    \/ /\ EqInf(e1, e2, "total_time_ms")
       /\ LtInf(e1, e2, "best_lap_ms") \/ EqInf(e1, e2, "best_lap_ms")

\* C1: every leaderboard that is returned is sorted non-decreasing by
\* (total_time_ms, best_lap_ms) with a missing value counted as +infinity:
\* an entry without total_time_ms comes after every entry with one.
C1_SortedMissingLast ==
    LeaderboardOk =>
        \A i, j \in 1..Len(resp.body) :
            i < j => PairLe(resp.body[i], resp.body[j])

\* the entries A, B, C, D of the example scenario, as stored
ExampleEntries ==
    << SetKey(EntryDoc(RidA, T120000, B30000), "_id", 1),
       SetKey(EntryDoc(RidA, NoneV, B29000), "_id", 2),
       SetKey(EntryDoc(RidA, T120000, B29500), "_id", 3),
       SetKey(EntryDoc(RidA, NoneV, NoneV), "_id", 4) >>

\* C2: the leaderboard of the example scenario (A, B, C, D with explicit None
\* values) is returned with success, in the order C, A, B, D with positions
\* 1, 2, 3, 4.
C2_ExampleRanked ==
    (entry = ExampleEntries /\ resp.op = "leaderboard" /\ resp.arg = RidA) =>
        /\ resp.status = 200
        /\ Len(resp.body) = 4
        /\ [i \in 1..4 |-> resp.body[i]["id"]]
               = <<OidStr(3), OidStr(1), OidStr(2), OidStr(4)>>
        /\ \A i \in 1..4 : resp.body[i]["position"] = i

\* C4 as stated: a leaderboard request with a malformed race_id is answered
\* with HTTP 400 and makes no store call.
C4_Malformed400 ==
    (resp.op = "leaderboard" /\ ~ObjectIdValid(resp.arg)) =>
        resp.status = 400 /\ resp.calls = <<>>

\* C4 as amended: a leaderboard request with a malformed race_id makes no
\* store call and fails: with HTTP 400 when the store handle is configured,
\* with HTTP 500 when it is not.
C4_MalformedNoStoreAccess ==
    (resp.op = "leaderboard" /\ ~ObjectIdValid(resp.arg)) =>
        /\ resp.calls = <<>>
        /\ resp.body = <<>>
        /\ resp.status = IF db THEN 400 ELSE 500

\* a malformed race_id was answered with 400 although entries with that very
\* race_id string are stored
C4_Witness ==
    /\ resp.op = "leaderboard" /\ ~ObjectIdValid(resp.arg)
    /\ db /\ resp.status = 400
    /\ FindByRace(entry, resp.arg) # <<>>

\* C5: the positions of a returned leaderboard of length n are 1, 2, ..., n
\* in output order, also when entries tie on both keys.
C5_PositionsDense ==
    LeaderboardOk =>
        \A i \in 1..Len(resp.body) : resp.body[i]["position"] = i

\* a leaderboard of three or more entries, two of them tied on both keys
C5_Witness ==
    /\ LeaderboardOk /\ Len(resp.body) >= 3
    /\ \E i, j \in 1..Len(resp.body) : i < j /\ Tied(resp.body[i], resp.body[j])

C7_ReadOnly ==
    [][resp'.op = "leaderboard" =>
           /\ entry' = entry /\ race' = race /\ vehicle' = vehicle /\ map' = map
           /\ \A i \in 1..Len(entry') : "position" \notin DOMAIN entry'[i]]_vars

\* a read that ranked entries out of a store that holds entries of other races too
C7_Witness ==
    /\ LeaderboardOk /\ Len(resp.body) >= 2 /\ Len(entry) > Len(resp.body)
    /\ \A i \in 1..Len(resp.body) : "position" \in DOMAIN resp.body[i]

\* the place of the entry with id string id in the store's order
StoreIndex(id) == CHOOSE k \in 1..Len(entry) : OidStr(entry[k]["_id"]) = id

\* C8: two returned entries that are equal on total_time_ms and on
\* best_lap_ms are in the order in which the store returned them.
C8_Stable ==
    LeaderboardOk =>
        \A i, j \in 1..Len(resp.body) :
            (i < j /\ Tied(resp.body[i], resp.body[j])) =>
                StoreIndex(resp.body[i]["id"]) < StoreIndex(resp.body[j]["id"])

\* two tied entries were returned, and an entry that sorts before them was
\* stored after them
C8_Witness ==
    /\ LeaderboardOk
    /\ \E i, j, k \in 1..Len(resp.body) :
           /\ i < j /\ j < k /\ Tied(resp.body[j], resp.body[k])
           /\ ~Tied(resp.body[i], resp.body[j])
           /\ StoreIndex(resp.body[i]["id"]) > StoreIndex(resp.body[k]["id"])


-----------------------------------------------------------------------------
(* POST /races and GET /races *)

\* the request bodies of POST /races: map_code with laps, or without
RacePayload(laps) == [map_code |-> "downtown_dash", laps |-> laps]

RacePayloads ==
    {RacePayload(n) : n \in {0, 1, 100, 101}} \cup {[map_code |-> "downtown_dash"]}

\* the one body sent when many races are created
ListPayloads == {RacePayload(3)}

\* RaceCreate: map_code and laps are required, laps is an int without a range
RaceCreateValid(payload) == "map_code" \in DOMAIN payload /\ "laps" \in DOMAIN payload

\* payload.model_dump(), then race_doc.update({"status": "pending"})
RaceDoc(payload) ==
    [map_code |-> payload["map_code"],
     laps |-> payload["laps"],
     allowed_vehicle_codes |-> Get(payload, "allowed_vehicle_codes", <<>>),
     created_by |-> Get(payload, "created_by", NoneV),
     status |-> "pending"]

\* POST /races
CreateRace(payload) ==
    /\ IF ~RaceCreateValid(payload)
       THEN /\ resp' = [op |-> "create_race", arg |-> payload, status |-> 422,
                        body |-> <<>>, calls |-> <<>>, repeat |-> FALSE]
            /\ UNCHANGED <<race, nextOid>>
       ELSE IF ~db
       THEN /\ resp' = [op |-> "create_race", arg |-> payload, status |-> 500,
                        body |-> <<>>, calls |-> <<>>, repeat |-> FALSE]
            /\ UNCHANGED <<race, nextOid>>
       ELSE /\ race' = Append(race, SetKey(RaceDoc(payload), "_id", nextOid))
            /\ nextOid' = nextOid + 1
            /\ resp' = [op |-> "create_race", arg |-> payload, status |-> 200,
                        body |-> <<[id |-> OidStr(nextOid)]>>,
                        calls |-> <<[coll |-> "race", op |-> "insert_one",
                                     arg |-> RaceDoc(payload)]>>,
                        repeat |-> FALSE]
    /\ UNCHANGED <<db, vehicle, map, entry, seedPc, seedCounts>>

\* .limit(50)
RaceListLimit == 50

RECURSIVE SortByIdDesc(_)
\* cursor.sort("_id", -1): the documents by descending _id
SortByIdDesc(coll) ==
    IF coll = <<>> THEN <<>>
    ELSE LET m == CHOOSE i \in 1..Len(coll) :
                      \A j \in 1..Len(coll) : coll[j]["_id"] <= coll[i]["_id"]
         IN <<coll[m]>> \o SortByIdDesc(SubSeq(coll, 1, m - 1)
                                          \o SubSeq(coll, m + 1, Len(coll)))

\* cursor.limit(n)
Limit(s, n) == SubSeq(s, 1, IF Len(s) < n THEN Len(s) ELSE n)

\* a listing in the store's own order, oldest first
ListRacesDocsOldestFirst(coll) ==
    LET found == Limit(coll, RaceListLimit)
    IN [i \in 1..Len(found) |-> to_str_id(found[i])]

\* [to_str_id(r) for r in db["race"].find({}).sort("_id", -1).limit(50)]
ListRacesDocs(coll) ==
    LET found == Limit(SortByIdDesc(coll), RaceListLimit)
    IN [i \in 1..Len(found) |-> to_str_id(found[i])]

\* GET /races
ListRaces ==
    /\ resp' = IF ~db
               THEN [op |-> "list_races", arg |-> <<>>, status |-> 500,
                     body |-> <<>>, calls |-> <<>>, repeat |-> FALSE]
               ELSE [op |-> "list_races", arg |-> <<>>, status |-> 200,
                     body |-> ListRacesDocs(race),
                     calls |-> <<[coll |-> "race", op |-> "find", arg |-> <<>>]>>,
                     repeat |-> FALSE]
    /\ UNCHANGED <<db, vehicle, map, race, entry, nextOid, seedPc, seedCounts>>

NextCreate ==
    \/ \E payload \in RacePayloads : Len(race) < MaxRaces /\ CreateRace(payload)
    \/ ListRaces

SpecCreate == Init /\ [][NextCreate]_vars

NextList ==
    \/ \E payload \in ListPayloads : Len(race) < MaxListedRaces /\ CreateRace(payload)
    \/ ListRaces

SpecList == Init /\ [][NextList]_vars

\* Race.laps: Field(..., ge=1, le=100)
LapsMin == 1
LapsMax == 100

\* C3: every race document that POST /races wrote has 1 <= laps <= 100, and
\* a body with laps outside 1..100 is answered with a client error and no
\* store call.
C3_LapsInRange ==
    /\ \A i \in 1..Len(race) : LapsMin <= race[i]["laps"] /\ race[i]["laps"] <= LapsMax
    /\ (resp.op = "create_race" /\ "laps" \in DOMAIN resp.arg
          /\ (resp.arg["laps"] < LapsMin \/ resp.arg["laps"] > LapsMax)) =>
            (resp.status \in 400..499 /\ resp.calls = <<>>)

Min(a, b) == IF a < b THEN a ELSE b

\* C9: after n races were created by POST /races, GET /races returns the
\* min(50, n) most recently created races, newest first, each pending.
C9_NewestFifty ==
    (resp.op = "list_races" /\ resp.status = 200) =>
        /\ Len(resp.body) = Min(RaceListLimit, Len(race))
        /\ \A i \in 1..Len(resp.body) :
               /\ resp.body[i]["id"] = OidStr(race[Len(race) + 1 - i]["_id"])
               /\ resp.body[i]["status"] = "pending"

\* a listing of 50 races out of more than 50
C9_Witness ==
    /\ resp.op = "list_races" /\ resp.status = 200
    /\ Len(race) > RaceListLimit /\ Len(resp.body) = RaceListLimit


-----------------------------------------------------------------------------
(* POST /seed, one request at a time per worker process; the workers share  *)
(* the store, and each store call is one step                               *)

DefaultVehicles ==
    << [name |-> "Zentorno", code |-> "zentorno", class_name |-> "Super", is_enabled |-> TRUE],
       [name |-> "Elegy Retro", code |-> "elegy", class_name |-> "Sports", is_enabled |-> TRUE],
       [name |-> "Comet SR", code |-> "comet5", class_name |-> "Sports", is_enabled |-> TRUE] >>

DefaultMaps ==
    << [name |-> "Downtown Dash", code |-> "downtown_dash", author |-> "Flames", is_enabled |-> TRUE],
       [name |-> "Vinewood Loop", code |-> "vinewood_loop", author |-> "Flames", is_enabled |-> TRUE],
       [name |-> "Airport Circuit", code |-> "airport_circuit", author |-> "Flames", is_enabled |-> TRUE] >>

\* collection.insert_many(docs): the documents are appended with fresh _ids
InsertMany(coll, docs) ==
    coll \o [i \in 1..Len(docs) |-> SetKey(docs[i], "_id", nextOid + i - 1)]

SeedResp(status) ==
    [op |-> "seed", arg |-> <<>>, status |-> status, body |-> <<>>,
     calls |-> <<>>, repeat |-> FALSE]

\* the request arrives; db is None: HTTP 500
SeedRejected(w) ==
    /\ seedPc[w] = "idle"
    /\ ~db
    /\ resp' = SeedResp(500)
    /\ UNCHANGED <<db, vehicle, map, race, entry, nextOid, seedPc, seedCounts>>

\* counts["vehicle"] = db["vehicle"].count_documents({})
SeedCountVehicles(w) ==
    /\ seedPc[w] = "idle"
    /\ db
    /\ seedCounts' = [seedCounts EXCEPT ![w].vehicle = Len(vehicle)]
    /\ seedPc' = [seedPc EXCEPT ![w] = "count_map"]
    /\ UNCHANGED <<db, vehicle, map, race, entry, nextOid, resp>>

\* counts["map"] = db["map"].count_documents({})
SeedCountMaps(w) ==
    /\ seedPc[w] = "count_map"
    /\ seedCounts' = [seedCounts EXCEPT ![w].map = Len(map)]
    /\ seedPc' = [seedPc EXCEPT ![w] = "vehicles"]
    /\ UNCHANGED <<db, vehicle, map, race, entry, nextOid, resp>>

\* if counts["vehicle"] == 0: db["vehicle"].insert_many(defaults)
SeedVehicles(w) ==
    /\ seedPc[w] = "vehicles"
    /\ IF seedCounts[w].vehicle = 0
       THEN /\ vehicle' = InsertMany(vehicle, DefaultVehicles)
            /\ nextOid' = nextOid + Len(DefaultVehicles)
       ELSE UNCHANGED <<vehicle, nextOid>>
    /\ seedPc' = [seedPc EXCEPT ![w] = "maps"]
    /\ UNCHANGED <<db, map, race, entry, seedCounts, resp>>

\* if counts["map"] == 0: db["map"].insert_many(maps); return {"status": "ok", ...}
SeedMaps(w) ==
    /\ seedPc[w] = "maps"
    /\ IF seedCounts[w].map = 0
       THEN /\ map' = InsertMany(map, DefaultMaps)
            /\ nextOid' = nextOid + Len(DefaultMaps)
       ELSE UNCHANGED <<map, nextOid>>
    /\ seedPc' = [seedPc EXCEPT ![w] = "idle"]
    /\ seedCounts' = [seedCounts EXCEPT ![w] = [vehicle |-> 0, map |-> 0]]
    /\ resp' = SeedResp(200)
    /\ UNCHANGED <<db, vehicle, race, entry>>

NextSeed ==
    \E w \in Workers :
        \/ SeedRejected(w)
        \/ SeedCountVehicles(w)
        \/ SeedCountMaps(w)
        \/ SeedVehicles(w)
        \/ SeedMaps(w)

SpecSeed == Init /\ [][NextSeed]_vars

\* how many documents of coll hold this code
CountCode(coll, code) == Cardinality({i \in 1..Len(coll) : coll[i]["code"] = code})

DefaultVehicleCodes == {DefaultVehicles[i]["code"] : i \in 1..Len(DefaultVehicles)}
DefaultMapCodes == {DefaultMaps[i]["code"] : i \in 1..Len(DefaultMaps)}

\* C10: no default vehicle and no default map is ever stored twice, and
\* once a seed request has succeeded each of them is stored exactly once,
\* also when the count and insert steps of seed requests overlap.
C10_SeededOnce ==
    /\ \A c \in DefaultVehicleCodes : CountCode(vehicle, c) <= 1
    /\ \A c \in DefaultMapCodes : CountCode(map, c) <= 1
    /\ (resp.op = "seed" /\ resp.status = 200) =>
           /\ \A c \in DefaultVehicleCodes : CountCode(vehicle, c) = 1
           /\ \A c \in DefaultMapCodes : CountCode(map, c) = 1

=============================================================================
